---- MODULE Spec2Model ----
(***************************************************************************)
(* A model of the autoencoder training subsystem (model/autoencoder.py)    *)
(* and of the text-embedding helpers (model/embedding.py,                  *)
(* EmbeddingUtil.py).                                                      *)
(*                                                                         *)
(* Arrays are sequences (position p of a sequence is Python index p - 1);  *)
(* a row of the feature matrix is named by its 0-based row index.  Learned *)
(* parameters, batch-norm running statistics and losses are abstract       *)
(* values: a parameter tensor is the number of optimizer steps that made   *)
(* it, a running statistic the number of train-mode forward passes.        *)
(***************************************************************************)
EXTENDS Integers, Sequences, FiniteSets

\* ------------------------------------------------------------------ bounds
\* Row counts 1..SmallRows are explored (one batch, few rows).
SmallRows == 3
\* Permutations are rotations by 0..MaxRotation places, and their reverses.
MaxRotation == 1
\* Row counts 2*batch_size+1 .. 2*batch_size+ExtraRows give three batches.
ExtraRows == 2
\* train_loop is called with epochs in 0..MaxEpochs.
MaxEpochs == 2
\* train_loop is called with print_every_n_batches in 1..MaxEvery.
MaxEvery == 2
\* At most MaxSteps train_step calls are made on one AutoEncoder.
MaxSteps == 4
\* data.shape[1] of the feature matrices.
FeatureCols == 4
\* Sentences hold up to MaxWords words.
MaxWords == 2

\* ------------------------------------------------------- program constants
\* DataLoader(..., batch_size=64)
batch_size == 64
\* AutoEncoder(..., encoded_size=100)
encoded_size == 100
\* The width of a layer of bert-base-uncased.
bert_hidden_size == 768

\* ------------------------------------------------------------------ helpers
Range(s) == {s[p] : p \in 1..Len(s)}

Min(a, b) == IF a < b THEN a ELSE b

\* Python's a[lo:hi] for 0 <= lo <= hi.
Slice(a, lo, hi) == SubSeq(a, lo + 1, Min(hi, Len(a)))

\* numpy.arange(n) as a sequence.
Arange(n) == [p \in 1..n |-> p - 1]

\* The orders a pseudo-random permutation of 0..n-1 is drawn from: 0..n-1
\* rotated by up to MaxRotation places, forwards or backwards (every
\* permutation for n <= 2).
permutation(n) ==
  {[p \in 1..n |-> IF reversed THEN (n - p + r) % n ELSE (p - 1 + r) % n] :
     r \in 0..Min(MaxRotation, n - 1), reversed \in BOOLEAN}

\* The feature matrices the model is constructed on (their row counts).
RowCounts ==
  (1..SmallRows) \cup {10, 100}
    \cup ((2 * batch_size + 1)..(2 * batch_size + ExtraRows))

\* validation_perc as an exact fraction <<numerator, denominator>>; the
\* products int(val_pct * n) of these fractions are exact in binary floating
\* point for the row counts above.
ValidationPercs == {<<0, 1>>, <<1, 5>>, <<1, 2>>}

\* ------------------------------------------------------------- DataSplitter
\* get_cv_idxs with a slice that ends one index late.
get_cv_idxs_wide(n, val_pct, idxs) ==
  LET n_val == (val_pct[1] * n) \div val_pct[2]
      idx_start == 0 * n_val
  IN  Slice(idxs, idx_start, idx_start + n_val + 1)

\* get_cv_idxs(n, cv_idx=0, val_pct, seed=0), given the permutation the
\* seeded generator yields.
get_cv_idxs(n, val_pct, idxs) ==
  LET n_val == (val_pct[1] * n) \div val_pct[2]
      idx_start == 0 * n_val
  IN  Slice(idxs, idx_start, idx_start + n_val)

\* split_by_idx(idxs, a): the rows of a under the mask and under its negation.
split_by_idx(idxs, a) ==
  LET mask == [r \in Range(a) |-> r \in Range(idxs)]
  IN  <<SelectSeq(a, LAMBDA r : mask[r]), SelectSeq(a, LAMBDA r : ~mask[r])>>

\* ------------------------------------------------------------------ tensors
\* self.data is a numpy array; torch.from_numpy(..).type(FloatTensor).cuda()
\* makes the tensor the networks accept.
ndarray(rows) == [kind |-> "ndarray", rows |-> rows, cols |-> FeatureCols]

from_numpy(a) == [kind |-> "tensor", rows |-> a.rows, cols |-> a.cols]

\* --------------------------------------------------------------- the object
VARIABLES
  self,      \* the AutoEncoder's attributes
  files,     \* checkpoint/*.pt: path -> state dict, or NoFile
  loop,      \* the frame of a running train_loop call, and what it has fed
  ret,       \* the last call: its name, what it raised, returned and did
  calls,     \* train_step calls made so far
  embedding, \* the last text-embedding call: its inputs and its result
  args       \* the arguments the constructor was called with

vars == <<self, files, loop, ret, calls, embedding, args>>

NoFile == [missing |-> TRUE]

NoValue == [kind |-> "None"]

\* nn.Module: training defaults to True, gradients to none.
Encoder(input_size, is_enable_bath_norm) ==
  [name |-> "encoder", training |-> TRUE, params |-> 0, stats |-> 0,
   grad |-> {}, in_size |-> input_size, out_size |-> encoded_size,
   batch_norm |-> is_enable_bath_norm]

Decoder(output_size, is_enable_bath_norm) ==
  [name |-> "decoder", training |-> TRUE, params |-> 0, stats |-> 0,
   grad |-> {}, in_size |-> encoded_size, out_size |-> output_size,
   batch_norm |-> is_enable_bath_norm]

\* optim.Adam(net.parameters()): bound to one network's parameters.
Adam(net) == [params_of |-> net, step |-> 0, applied |-> {}]

\* AutoEncoder.__init__(data, validation_perc, is_enable_bath_norm).
AutoEncoder(n, validation_perc, is_enable_bath_norm, idxs) ==
  LET val_idxs == get_cv_idxs(n, validation_perc, idxs)
      parts == split_by_idx(val_idxs, Arange(n))
  IN  [data |-> ndarray(Arange(n)),
       val_idxs |-> val_idxs,
       train |-> parts[2],
       val |-> from_numpy(ndarray(parts[1])),
       encoder |-> Encoder(FeatureCols, is_enable_bath_norm),
       decoder |-> Decoder(FeatureCols, is_enable_bath_norm),
       encoder_optimizer |-> Adam("encoder"),
       decoder_optimizer |-> Adam("decoder"),
       train_losses |-> <<>>,
       val_losses |-> <<>>]

\* ------------------------------------------------------- one call's machine
\* A call runs on a machine m: the object, the operations done so far (each
\* with the mode of the network it ran on and the method that ran it), the
\* exception raised, if any, and the value of the last expression.  Once an
\* exception is raised the rest of the call is skipped.
Machine(obj) == [self |-> obj, trace |-> <<>>, raised |-> "none", out |-> NoValue]

Mode(net) == IF net.training THEN "train" ELSE "eval"

Did(m, op, mode, by) ==
  Append(m.trace, [op |-> op, mode |-> mode, by |-> by])

Raise(m, exception) == [m EXCEPT !.raised = exception]

\* nn.Module.train() / eval() on one network.
set_mode(m, net, training) ==
  IF m.raised # "none" THEN m
  ELSE [m EXCEPT !.self[net].training = training]

\* reset that switches the encoder and leaves the decoder as it is.
reset_encoder_only(m, train) ==
  set_mode(m, "encoder", train)

\* AutoEncoder.reset: both networks to the same mode.
reset(m, train) ==
  set_mode(set_mode(m, "encoder", train), "decoder", train)

\* Encoder.forward / Decoder.forward: nn.Sequential of Linear, BatchNorm1d,
\* ReLU, Dropout.  Linear takes tensors only, of its input width; BatchNorm1d
\* in train mode refuses a batch of one row and updates its running
\* statistics.
forward(m, net, x, by) ==
  LET N == m.self[net]
  IN  IF m.raised # "none" THEN m
      ELSE IF x.kind # "tensor" THEN Raise(m, "TypeError")
      ELSE IF x.cols # N.in_size THEN Raise(m, "RuntimeError")
      ELSE IF N.batch_norm /\ N.training /\ Len(x.rows) = 1
           THEN Raise(m, "ValueError")
      ELSE [m EXCEPT
              !.self[net].stats =
                 IF N.batch_norm /\ N.training THEN @ + 1 ELSE @,
              !.trace = Did(m, net \o ".forward", Mode(N), by),
              !.out = [kind |-> "tensor", rows |-> x.rows, cols |-> N.out_size,
                       from |-> (IF "from" \in DOMAIN x THEN x.from ELSE <<>>)
                                  \o <<[net |-> net, params |-> N.params,
                                        mode |-> Mode(N)]>>]]

\* nn.MSELoss(reduction='mean'): the mean over no element is NaN.
criterion(m, reconstruction, target, by, call) ==
  IF m.raised # "none" THEN m
  ELSE IF reconstruction.cols # target.cols
          \/ Len(reconstruction.rows) # Len(target.rows)
       THEN Raise(m, "RuntimeError")
  ELSE [m EXCEPT
          !.trace = Did(m, "criterion", "-", by),
          !.out = [kind |-> "loss",
                   nan |-> (Len(reconstruction.rows) * reconstruction.cols = 0),
                   from |-> reconstruction.from,
                   call |-> call]]

\* zero_grad that clears nothing.
zero_grad_skipped(m, opt) ==
  IF m.raised # "none" THEN m
  ELSE [m EXCEPT !.trace = Did(m, opt \o ".zero_grad", "-", "train_step")]

\* optimizer.zero_grad(): clears the gradients of the optimizer's parameters.
zero_grad(m, opt) ==
  IF m.raised # "none" THEN m
  ELSE [m EXCEPT
          !.self[m.self[opt].params_of].grad = {},
          !.trace = Did(m, opt \o ".zero_grad", "-", "train_step")]

\* loss.backward(): adds this loss's gradient to the .grad of every parameter
\* the loss was computed from.
backward(m, loss) ==
  IF m.raised # "none" THEN m
  ELSE LET nets == {loss.from[p].net : p \in 1..Len(loss.from)}
       IN  [m EXCEPT
              !.self.encoder.grad =
                 IF "encoder" \in nets THEN @ \cup {loss.call} ELSE @,
              !.self.decoder.grad =
                 IF "decoder" \in nets THEN @ \cup {loss.call} ELSE @,
              !.trace = Did(m, "loss.backward", "-", "train_step")]

\* optimizer.step(): one Adam update of the optimizer's parameters from their
\* current gradients.
step(m, opt) ==
  LET net == m.self[opt].params_of
  IN  IF m.raised # "none" THEN m
      ELSE [m EXCEPT
              !.self[net].params = @ + 1,
              !.self[opt].step = @ + 1,
              !.self[opt].applied = m.self[net].grad,
              !.trace = Did(m, opt \o ".step", "-", "train_step")]

\* AutoEncoder.train_step(input_tensor, target_tensor), the call-th call.
train_step(m, input_tensor, target_tensor, call) ==
  LET m1 == zero_grad(m, "encoder_optimizer")
      m2 == zero_grad(m1, "decoder_optimizer")
      m3 == forward(m2, "encoder", input_tensor, "train_step")
      m4 == forward(m3, "decoder", m3.out, "train_step")
      m5 == criterion(m4, m4.out, target_tensor, "train_step", call)
      m6 == backward(m5, m5.out)
      m7 == step(m6, "encoder_optimizer")
      m8 == step(m7, "decoder_optimizer")
  IN  IF m8.raised # "none" THEN m8 ELSE [m8 EXCEPT !.out = m5.out]

\* get_val_loss that back-propagates and steps both optimizers, as train_step
\* does.
get_val_loss_stepping(m, input_tensor, target_tensor) ==
  LET m1 == reset(m, FALSE)
      m2 == forward(m1, "encoder", input_tensor, "get_val_loss")
      m3 == forward(m2, "decoder", m2.out, "get_val_loss")
      m4 == criterion(m3, m3.out, target_tensor, "get_val_loss", 0)
      m5 == step(step(backward(m4, m4.out), "encoder_optimizer"),
                 "decoder_optimizer")
  IN  IF m5.raised # "none" THEN m5 ELSE [m5 EXCEPT !.out = m4.out]

\* AutoEncoder.get_val_loss(input_tensor, target_tensor).
get_val_loss(m, input_tensor, target_tensor) ==
  LET m1 == reset(m, FALSE)
      m2 == forward(m1, "encoder", input_tensor, "get_val_loss")
      m3 == forward(m2, "decoder", m2.out, "get_val_loss")
  IN  criterion(m3, m3.out, target_tensor, "get_val_loss", 0)

\* ------------------------------------------------- SampleSource, DataLoader
\* AETrainingData.__getitem__(idx): input and target are both row idx of x.
getitem(x, idx) == [input |-> x[idx + 1], target |-> x[idx + 1]]

\* AETrainingData.__len__.
len(x) == Len(x)

\* Batches per epoch were the final partial batch dropped.
num_batches_drop_last(x) == len(x) \div batch_size

\* Batches per epoch of DataLoader(dataset, batch_size=64), drop_last off.
num_batches(x) == (len(x) + batch_size - 1) \div batch_size

\* The i-th batch of an epoch whose sampler drew `order`, collated into one
\* input tensor and one target tensor, both moved to the device.
batch_of(x, order, i) ==
  LET idxs == Slice(order, i * batch_size, (i + 1) * batch_size)
      samples == [p \in 1..Len(idxs) |-> getitem(x, idxs[p])]
  IN  [input |-> from_numpy(ndarray([p \in 1..Len(samples) |-> samples[p].input])),
       target |-> from_numpy(ndarray([p \in 1..Len(samples) |-> samples[p].target]))]

\* ---------------------------------------------------------------- train_loop
\* The report test without its `i != 0`.
report_due_every_batch(i, print_every_n_batches) ==
  i % print_every_n_batches = 0

\* The report test of train_loop: i % print_every_n_batches == 0 and i != 0.
report_due(i, print_every_n_batches) ==
  i % print_every_n_batches = 0 /\ i # 0

\* The body of the batch loop (lines 103-115) for batch i, the call-th
\* train_step.
loop_body(m, batch, i, print_every_n_batches, call) ==
  LET m1 == reset(m, TRUE)
      m2 == train_step(m1, batch.input, batch.target, call)
      loss == m2.out
      m3 == get_val_loss(m2, m2.self.val, m2.self.val)
      val_loss == m3.out
  IN  IF m2.raised # "none" THEN m2
      ELSE IF ~report_due(i, print_every_n_batches) THEN m2
      ELSE IF m3.raised # "none" THEN m3
      ELSE [m3 EXCEPT
              !.self.train_losses = Append(@, loss),
              !.self.val_losses = Append(@, val_loss),
              !.trace = Did(m3, "append", "-", "train_loop"),
              !.out = loss]

Idle == [pc |-> "idle", epochs |-> 0, print_every_n_batches |-> 1,
         epoch |-> 0, i |-> 0, order |-> <<>>, fed |-> <<>>,
         len0 |-> 0, calls0 |-> 0]

Returned(op, m, input, target) ==
  [op |-> op, raised |-> m.raised,
   out |-> (IF m.raised = "none" THEN m.out ELSE NoValue), trace |-> m.trace,
   input |-> input, target |-> target]

\* train_loop(epochs, print_every_n_batches) is entered.  With no epoch to
\* run it returns at once.
TrainLoopEnter(epochs, print_every_n_batches) ==
  /\ loop.pc = "idle"
  /\ calls + epochs * num_batches(self.train) <= MaxSteps
  /\ loop' = IF epochs = 0 THEN Idle
              ELSE [Idle EXCEPT
                      !.pc = "running",
                      !.epochs = epochs,
                      !.print_every_n_batches = print_every_n_batches,
                      !.len0 = Len(self.train_losses),
                      !.calls0 = calls]
  /\ ret' = Returned("train_loop", Machine(self), NoValue, NoValue)
  /\ UNCHANGED <<self, files, calls, embedding, args>>

\* One pass of the batch loop: the epoch's first pass draws the sampler's
\* order; the last pass of the last epoch returns; an exception leaves the
\* loop at once.  The frame is gone once the call has returned or raised.
TrainLoopBatch ==
  /\ loop.pc = "running"
  /\ \E order \in (IF loop.i = 0 THEN permutation(len(self.train))
                               ELSE {loop.order}) :
       LET batch == batch_of(self.train, order, loop.i)
           m == loop_body(Machine(self), batch, loop.i,
                          loop.print_every_n_batches, calls + 1)
           last == loop.i + 1 = num_batches(self.train)
           epoch == IF last THEN loop.epoch + 1 ELSE loop.epoch
       IN  /\ self' = m.self
           /\ calls' = calls + 1
           /\ ret' = Returned("train_loop", m, batch.input, batch.target)
           /\ loop' = IF m.raised # "none" \/ epoch = loop.epochs
                      THEN Idle
                      ELSE [loop EXCEPT
                              !.order = order,
                              !.fed = (IF loop.i = 0 THEN <<>> ELSE @)
                                        \o batch.input.rows,
                              !.epoch = epoch,
                              !.i = IF last THEN 0 ELSE @ + 1]
  /\ UNCHANGED <<files, embedding, args>>

\* ------------------------------------------------------------- direct calls
\* The tensors a caller hands to train_step or get_val_loss: the validation
\* tensor, or the first two training rows.
CallerTensors ==
  {self.val, from_numpy(ndarray(Slice(self.train, 0, 2)))}

TrainStep(x) ==
  /\ loop.pc = "idle"
  /\ calls < MaxSteps
  /\ LET m == train_step(Machine(self), x, x, calls + 1)
     IN  /\ self' = m.self
         /\ ret' = Returned("train_step", m, x, x)
  /\ calls' = calls + 1
  /\ UNCHANGED <<files, loop, embedding, args>>

GetValLoss(x) ==
  /\ loop.pc = "idle"
  /\ LET m == get_val_loss(Machine(self), x, x)
     IN  /\ self' = m.self
         /\ ret' = Returned("get_val_loss", m, x, x)
  /\ UNCHANGED <<files, loop, calls, embedding, args>>

\* get_encoded_representations(): the tensor made of self.data is not the
\* one encoded; the encoder is called on self.data itself.
get_encoded_representations(m) ==
  LET to_encode == from_numpy(m.self.data)
      m1 == reset(m, FALSE)
  IN  forward(m1, "encoder", m.self.data, "get_encoded_representations")

GetEncodedRepresentations ==
  /\ loop.pc = "idle"
  /\ LET m == get_encoded_representations(Machine(self))
     IN  /\ self' = m.self
         /\ ret' = Returned("get_encoded_representations", m, self.data, NoValue)
  /\ UNCHANGED <<files, loop, calls, embedding, args>>

\* ---------------------------------------------------------- CheckpointStore
encoder_checkpoint == "checkpoint/encoder_checkpoint.pt"

decoder_checkpoint == "checkpoint/decoder_checkpoint.pt"

\* nn.Module.state_dict(): the learnable tensors and the batch-norm buffers,
\* each under a key that starts with the name of the network's one attribute.
state_dict(N) ==
  LET keys == {N.name \o ".0.weight"}
                \cup (IF N.batch_norm THEN {N.name \o ".1.running_mean"} ELSE {})
  IN  [k \in keys |-> IF k = N.name \o ".0.weight" THEN N.params ELSE N.stats]

\* nn.Module.load_state_dict(sd, strict=False): every key of the network that
\* sd holds is copied in; keys only one side has are ignored.
load_state_dict(N, sd) ==
  LET own == state_dict(N)
      w == N.name \o ".0.weight"
      r == N.name \o ".1.running_mean"
  IN  [N EXCEPT
         !.params = IF w \in DOMAIN sd THEN sd[w] ELSE @,
         !.stats = IF r \in DOMAIN own /\ r \in DOMAIN sd THEN sd[r] ELSE @]

\* torch.load(path) then load_state_dict into network `net`.
load_into(m, net, path) ==
  IF files[path] = NoFile THEN Raise(m, "FileNotFoundError")
  ELSE [m EXCEPT !.self[net] = load_state_dict(@, files[path])]

\* AutoEncoder.load_encoder().
load_encoder(m) == load_into(m, "encoder", encoder_checkpoint)

\* AutoEncoder.load_decoder(): the decoder's file is loaded into self.encoder.
load_decoder(m) == load_into(m, "encoder", decoder_checkpoint)

SaveEncoder ==
  /\ loop.pc = "idle"
  /\ files' = [files EXCEPT ![encoder_checkpoint] = state_dict(self.encoder)]
  /\ ret' = Returned("save_encoder", Machine(self), NoValue, NoValue)
  /\ UNCHANGED <<self, loop, calls, embedding, args>>

SaveDecoder ==
  /\ loop.pc = "idle"
  /\ files' = [files EXCEPT ![decoder_checkpoint] = state_dict(self.decoder)]
  /\ ret' = Returned("save_decoder", Machine(self), NoValue, NoValue)
  /\ UNCHANGED <<self, loop, calls, embedding, args>>

LoadEncoder ==
  /\ loop.pc = "idle"
  /\ LET m == load_encoder(Machine(self))
     IN  /\ self' = m.self
         /\ ret' = Returned("load_encoder", m, NoValue, NoValue)
  /\ UNCHANGED <<files, loop, calls, embedding, args>>

LoadDecoder ==
  /\ loop.pc = "idle"
  /\ LET m == load_decoder(Machine(self))
     IN  /\ self' = m.self
         /\ ret' = Returned("load_decoder", m, NoValue, NoValue)
  /\ UNCHANGED <<files, loop, calls, embedding, args>>

\* ------------------------------------------------------- text embeddings
\* The words sentences are made of.
Words == {"the", "movies", "1990s", "action"}

\* The characters of a word, as iterating over a str yields them.
Chars(w) ==
  CASE w = "the" -> <<"t", "h", "e">>
    [] w = "movies" -> <<"m", "o", "v", "i", "e", "s">>
    [] w = "1990s" -> <<"1", "9", "9", "0", "s">>
    [] w = "action" -> <<"a", "c", "t", "i", "o", "n">>

\* stopwords.words('english'), as far as it meets the words and letters above.
stop_words == {"the", "a", "i", "s", "t", "m", "o"}

\* re.match(r'([1-3][0-9]{3}[s]{1})', token) on a token of five characters.
IsDecade(token) == token = "1990s"

\* stemmer.stem(lemmatizer.lemmatize(token.lower())).
stem_lemmatize(token) == IF token = "movies" THEN "movi" ELSE token

\* A sentence is a str or a list of str; a str of several words holds a blank
\* between them, which the tokenizer drops.
Sentences ==
  {[kind |-> k, words |-> ws] :
     k \in {"str", "list"},
     ws \in UNION {[1..l -> Words] : l \in 0..MaxWords}}

\* `for word in sentence`: the elements of a list, the characters of a str.
Iterate(sentence) ==
  LET RECURSIVE chars(_)
      chars(ws) == IF ws = <<>> THEN <<>>
                   ELSE Chars(Head(ws))
                          \o (IF Len(ws) > 1 THEN <<" ">> ELSE <<>>)
                          \o chars(Tail(ws))
  IN  IF sentence.kind = "list" THEN sentence.words ELSE chars(sentence.words)

\* Vocabularies: the ordered keys of the dictionary.
Dictionaries ==
  {<<"movi", "1990s", "action">>,
   <<"action", "movies", "1990s">>}

\* list(dictionary.keys()).index(token): 0-based, ValueError when absent.
index(keys, token) ==
  IF token \in Range(keys)
  THEN (CHOOSE p \in 1..Len(keys) : keys[p] = token) - 1
  ELSE -1

\* get_bow_embedding(sentence, dictionary): a 1 x len(dictionary) matrix.
get_bow_embedding(sentence, dictionary) ==
  LET items == Iterate(sentence)
      \* tokenizer.tokenize(str(word).lower()) less the stop words
      filtered_token == SelectSeq(items, LAMBDA w : w # " " /\ w \notin stop_words)
      looked_up == [p \in 1..Len(filtered_token) |->
                      IF IsDecade(filtered_token[p]) THEN filtered_token[p]
                      ELSE stem_lemmatize(filtered_token[p])]
      hits == {index(dictionary, looked_up[p]) : p \in 1..Len(looked_up)}
  IN  IF -1 \in hits
      THEN [raised |-> "ValueError", out |-> NoValue]
      ELSE [raised |-> "none",
            out |-> [kind |-> "vector", dim |-> Len(dictionary),
                     values |-> [p \in 1..Len(dictionary) |->
                                   IF p - 1 \in hits THEN 1 ELSE 0]]]

\* get_tf_idf_embedding(sentence): fits a TfidfVectorizer and returns nothing.
\* fit_transform refuses a str, and a corpus with no word left.
get_tf_idf_embedding(sentence) ==
  IF sentence.kind = "str"
     \/ Range(sentence.words) \subseteq stop_words
  THEN [raised |-> "ValueError", out |-> NoValue]
  ELSE [raised |-> "none", out |-> NoValue]

\* get_bert_embedding(sentence) / getBertEmbedding(sentence): "[CLS] " +
\* sentence needs a str; the mean over the tokens of the last layer.
get_bert_embedding(sentence) ==
  IF sentence.kind # "str"
  THEN [raised |-> "TypeError", out |-> NoValue]
  ELSE [raised |-> "none",
        out |-> [kind |-> "vector", dim |-> bert_hidden_size, values |-> <<>>]]

\* embedding_helper.get_embedding().
get_embedding(sentence, model, dictionary) ==
  IF model = "bert" THEN get_bert_embedding(sentence)
  ELSE IF model = "bow" THEN get_bow_embedding(sentence, dictionary)
  ELSE IF model = "tf-idf" THEN get_tf_idf_embedding(sentence)
  ELSE [raised |-> "none", out |-> NoValue]

\* EmbeddingUtil.getEmbedding().
getEmbedding(sentence, model) ==
  IF model = "bert" THEN get_bert_embedding(sentence)
  ELSE [raised |-> "none", out |-> NoValue]

Models == {"bow", "tf-idf", "bert"}

GetEmbedding(sentence, model, dictionary) ==
  /\ embedding' = [cls |-> "embedding_helper", sentence |-> sentence,
                   model |-> model, dictionary |-> dictionary,
                   result |-> get_embedding(sentence, model, dictionary)]
  /\ UNCHANGED <<self, files, loop, ret, calls, args>>

GetEmbeddingUtil(sentence, model) ==
  /\ embedding' = [cls |-> "EmbeddingUtil", sentence |-> sentence,
                   model |-> model, dictionary |-> <<>>,
                   result |-> getEmbedding(sentence, model)]
  /\ UNCHANGED <<self, files, loop, ret, calls, args>>

\* ------------------------------------------------------------ specification
NoCall == [cls |-> "none"]

Constructed(n, validation_perc, is_enable_bath_norm, idxs) ==
  /\ self = AutoEncoder(n, validation_perc, is_enable_bath_norm, idxs)
  /\ args = [n |-> n, validation_perc |-> validation_perc,
             is_enable_bath_norm |-> is_enable_bath_norm]
  /\ files = [path \in {encoder_checkpoint, decoder_checkpoint} |-> NoFile]
  /\ loop = Idle
  /\ ret = Returned("__init__", Machine(self), NoValue, NoValue)
  /\ calls = 0

Init ==
  /\ \E n \in RowCounts, validation_perc \in ValidationPercs,
        is_enable_bath_norm \in BOOLEAN :
       \E idxs \in permutation(n) :
         Constructed(n, validation_perc, is_enable_bath_norm, idxs)
  /\ embedding = NoCall

\* A training session: the training loop, and direct calls between loops.
Next ==
  \/ \E epochs \in 0..MaxEpochs, print_every_n_batches \in 1..MaxEvery :
       TrainLoopEnter(epochs, print_every_n_batches)
  \/ TrainLoopBatch
  \/ \E x \in CallerTensors : TrainStep(x)
  \/ \E x \in CallerTensors : GetValLoss(x)
  \/ GetEncodedRepresentations

Spec == Init /\ [][Next]_vars

\* A checkpointing session: training steps, saves and loads in any order.
NextCheckpoint ==
  \/ \E x \in CallerTensors : TrainStep(x)
  \/ SaveEncoder
  \/ SaveDecoder
  \/ LoadEncoder
  \/ LoadDecoder

SpecCheckpoint == Init /\ [][NextCheckpoint]_vars

\* Text-embedding calls; no AutoEncoder is involved.
InitEmbedding ==
  /\ Constructed(1, <<0, 1>>, TRUE, Arange(1))
  /\ embedding = NoCall

NextEmbedding ==
  \/ \E sentence \in Sentences, model \in Models, dictionary \in Dictionaries :
       GetEmbedding(sentence, model, dictionary)
  \/ \E sentence \in Sentences, model \in Models :
       GetEmbeddingUtil(sentence, model)

SpecEmbedding == InitEmbedding /\ [][NextEmbedding]_vars

\* =============================================================== properties
\* The operations of the last call that method `by` ran, in order.
OpsBy(by) ==
  LET t == SelectSeq(ret.trace, LAMBDA e : e.by = by)
  IN  [p \in 1..Len(t) |-> t[p].op]

IsForward(e) == e.op \in {"encoder.forward", "decoder.forward"}

FloorOf(val_pct, n) == (val_pct[1] * n) \div val_pct[2]

\* C1: get_encoded_representations() completes without error and returns one
\* latent vector of the encoding size per row of the full feature matrix, in
\* row order, computed by the encoder in evaluate mode.
C1_EncodedRepresentations ==
  ret.op = "get_encoded_representations" =>
    /\ ret.raised = "none"
    /\ ret.out.kind = "tensor"
    /\ ret.out.rows = Arange(args.n)
    /\ ret.out.cols = encoded_size
    /\ \A p \in 1..Len(ret.trace) :
         IsForward(ret.trace[p]) => ret.trace[p].mode = "eval"

C3_CheckpointRoundTrip ==
  /\ (ret.op = "load_encoder" /\ ret.raised = "none"
        => state_dict(self.encoder) = files[encoder_checkpoint])
  /\ (ret.op = "load_decoder" /\ ret.raised = "none"
        => state_dict(self.decoder) = files[decoder_checkpoint])

\* C4: a train_step call that completes has zeroed both optimizers'
\* gradients, run the encoder then the decoder, computed the loss,
\* back-propagated, and stepped the encoder's then the decoder's optimizer
\* once each, in this order; the gradients either optimizer applied come from
\* this call's loss alone.
TrainStepOrder ==
  <<"encoder_optimizer.zero_grad", "decoder_optimizer.zero_grad",
    "encoder.forward", "decoder.forward", "criterion", "loss.backward",
    "encoder_optimizer.step", "decoder_optimizer.step">>

C4_TrainStepOrder ==
  /\ Cardinality(self.encoder_optimizer.applied) <= 1
  /\ Cardinality(self.decoder_optimizer.applied) <= 1
  /\ (ret.op \in {"train_step", "train_loop"} /\ ret.raised = "none"
      /\ OpsBy("train_step") # <<>>
        => /\ OpsBy("train_step") = TrainStepOrder
           /\ self.encoder_optimizer.applied = {calls}
           /\ self.decoder_optimizer.applied = {calls})

C4_Witness ==
  /\ ret.op = "train_step" /\ ret.raised = "none"
  /\ calls >= 2
  /\ self.encoder_optimizer.step >= 2
  /\ self.encoder_optimizer.applied = {calls}
  /\ OpsBy("train_step") = TrainStepOrder

\* A step of a running train_loop: one pass of its batch loop.
LoopPass == loop.pc = "running"

\* The pass that has just run made a validation check.
Checked(r) == \E p \in 1..Len(r.trace) : r.trace[p].by = "get_val_loss"

\* Validation checks in the first i batches of an epoch, one every `every`.
ChecksIn(i, every) == IF i = 0 THEN 0 ELSE (i - 1) \div every

\* C5: in train_loop a validation check follows the train_step of batch i
\* exactly when i # 0 and i mod N = 0; a check appends the loss of that
\* train_step to the training history and one loss to the validation history,
\* and nothing else appends; the histories have equal length in every state,
\* and a loop of E epochs of B batches adds E * floor((B - 1) / N) entries.
C5_HistoryLength ==
  /\ Len(self.train_losses) = Len(self.val_losses)
  /\ (loop.pc = "running" =>
        Len(self.train_losses) =
          loop.len0
            + loop.epoch * ChecksIn(num_batches(self.train),
                                    loop.print_every_n_batches)
            + ChecksIn(loop.i, loop.print_every_n_batches))

C5_ReportStep ==
  LET due == loop.i # 0 /\ loop.i % loop.print_every_n_batches = 0
      B == num_batches(self.train)
  IN  /\ (LoopPass /\ ret'.raised = "none" =>
            /\ Checked(ret') <=> due
            /\ IF due
               THEN /\ Len(self'.train_losses) = Len(self.train_losses) + 1
                    /\ Len(self'.val_losses) = Len(self.val_losses) + 1
                    /\ SubSeq(self'.train_losses, 1, Len(self.train_losses))
                         = self.train_losses
                    /\ SubSeq(self'.val_losses, 1, Len(self.val_losses))
                         = self.val_losses
                    /\ self'.train_losses[Len(self'.train_losses)].call = calls'
                    /\ self'.train_losses[Len(self'.train_losses)] = ret'.out
                    /\ self'.val_losses[Len(self'.val_losses)].call = 0
               ELSE /\ self'.train_losses = self.train_losses
                    /\ self'.val_losses = self.val_losses)
      /\ (LoopPass /\ loop'.pc = "idle" /\ ret'.raised = "none" =>
            Len(self'.train_losses)
              = loop.len0 + loop.epochs * ((B - 1) \div loop.print_every_n_batches))
      /\ (~LoopPass =>
            /\ self'.train_losses = self.train_losses
            /\ self'.val_losses = self.val_losses)

C5_ValidationCadence == [](C5_HistoryLength) /\ [][C5_ReportStep]_vars

C5_Witness ==
  /\ ret.op = "train_loop" /\ ret.raised = "none" /\ loop.pc = "idle"
  /\ Checked(ret)
  /\ Len(self.train_losses) = 2 /\ Len(self.val_losses) = 2
  /\ calls = 3

\* C6: get_val_loss changes nothing of the model but the mode: after the call
\* both networks are in evaluate mode and every parameter, running statistic,
\* gradient, optimizer state and loss history is what it was.
C6_GetValLossStep ==
  ret'.op = "get_val_loss" =>
    /\ ret'.raised = "none"
    /\ self' = [self EXCEPT !.encoder.training = FALSE,
                            !.decoder.training = FALSE]
    /\ calls' = calls

C6_GetValLossFrame == [][C6_GetValLossStep]_vars

C6_Witness ==
  /\ ret.op = "get_val_loss" /\ ret.raised = "none"
  /\ ret.out.kind = "loss"
  /\ self.encoder.params >= 1 /\ self.encoder.stats >= 1
  /\ ~self.encoder.training /\ ~self.decoder.training
  /\ self.encoder_optimizer.step = self.encoder.params

\* C7: in a train_loop run every forward pass of train_step has both networks
\* in train mode and every forward pass of get_val_loss has both in evaluate
\* mode, the batch after a validation check included; the two networks are
\* never in different modes.
C7_SameMode ==
  /\ self.encoder.training = self.decoder.training
  /\ (ret.op = "train_loop" =>
        \A p \in 1..Len(ret.trace) :
          LET e == ret.trace[p]
          IN  /\ (IsForward(e) /\ e.by = "train_step" => e.mode = "train")
              /\ (IsForward(e) /\ e.by = "get_val_loss" => e.mode = "eval")
              /\ (e.op = "encoder.forward" /\ p < Len(ret.trace) =>
                    /\ ret.trace[p + 1].op = "decoder.forward"
                    /\ ret.trace[p + 1].mode = e.mode))

\* The pass after a validation check: the first batch of the second epoch,
\* the first epoch having ended on a check.
C7_Witness ==
  /\ ret.op = "train_loop" /\ ret.raised = "none"
  /\ loop.pc = "running" /\ loop.epoch = 1 /\ loop.i = 1
  /\ loop.print_every_n_batches = 1
  /\ Len(self.val_losses) = loop.len0 + 1
  /\ \E p \in 1..Len(ret.trace) :
       ret.trace[p].op = "decoder.forward" /\ ret.trace[p].mode = "train"
  /\ self.decoder.training

\* The vocabulary keys the words of a sentence are looked up under.
LookedUp(words) ==
  {IF IsDecade(w) THEN w ELSE stem_lemmatize(w) : w \in Range(words) \ stop_words}

\* The sentence holds a word that is no stop word and is of the type the
\* selector's function takes (a str for bert, a list of words otherwise);
\* for bow, the vocabulary holds every token.
Suited(e) ==
  /\ Range(e.sentence.words) \ stop_words # {}
  /\ e.model = "bert" => e.sentence.kind = "str"
  /\ e.model # "bert" => e.sentence.kind = "list"
  /\ (e.cls = "embedding_helper" /\ e.model = "bow"
        => LookedUp(e.sentence.words) \subseteq Range(e.dictionary))

\* C8: for every sentence and each of bow, tf-idf and bert, the embedding
\* call (get_embedding or getEmbedding) returns a vector, never None; for
\* bow, with every token of the sentence in the vocabulary, the vector has
\* one entry per vocabulary key, 1 at the keys of the sentence's tokens and 0
\* elsewhere.
C8_EmbeddingIsVector ==
  embedding.cls # "none" /\ Suited(embedding) =>
    /\ embedding.result.raised = "none"
    /\ embedding.result.out.kind = "vector"
    /\ (embedding.cls = "embedding_helper" /\ embedding.model = "bow" =>
          LET keys == embedding.dictionary
          IN  /\ embedding.result.out.dim = Len(keys)
              /\ \A p \in 1..Len(keys) :
                   embedding.result.out.values[p]
                     = (IF keys[p] \in LookedUp(embedding.sentence.words)
                        THEN 1 ELSE 0))

\* C9: train_loop returns after exactly `epochs` epochs (every pass moves
\* (epoch, i) one batch closer to the end of the last epoch, and the call
\* returns from that batch only); in each epoch every
\* training row is fed to exactly one train_step batch of at most 64 rows,
\* one train_step per batch, no validation row is ever fed, and input and
\* target are the same rows.
IsPermutationOf(s, t) ==
  /\ Len(s) = Len(t)
  /\ Range(s) = Range(t)
  /\ Cardinality(Range(s)) = Len(s)

C9_EpochCoverage ==
  LET B == num_batches(self.train)
  IN  /\ (ret.op = "train_loop" /\ ret.trace # <<>> =>
            /\ ret.input = ret.target
            /\ Len(ret.input.rows) \in 1..batch_size
            /\ Range(ret.input.rows) \subseteq Range(self.train)
            /\ Range(ret.input.rows) \cap Range(self.val.rows) = {})
      /\ (loop.pc = "running" =>
            /\ loop.epoch < loop.epochs /\ loop.i < B
            /\ calls = loop.calls0 + loop.epoch * B + loop.i
            /\ Cardinality(Range(loop.fed)) = Len(loop.fed)
            /\ Range(loop.fed) \subseteq Range(self.train)
            /\ (loop.i > 0 =>
                  Len(loop.fed) = Min(loop.i * batch_size, Len(self.train)))
            /\ (loop.i = 0 /\ loop.epoch > 0 =>
                  IsPermutationOf(loop.fed, self.train)))

C9_ReturnStep ==
  LET B == num_batches(self.train)
  IN  /\ (LoopPass => calls' = calls + 1)
      /\ (LoopPass /\ loop'.pc = "idle" /\ ret'.raised = "none" =>
            /\ loop.epoch + 1 = loop.epochs /\ loop.i + 1 = B
            /\ IsPermutationOf((IF loop.i = 0 THEN <<>> ELSE loop.fed)
                                 \o ret'.input.rows, self.train))
      /\ (LoopPass /\ loop'.pc = "running" =>
            \/ loop'.epoch = loop.epoch /\ loop'.i = loop.i + 1
            \/ loop'.epoch = loop.epoch + 1 /\ loop'.i = 0 /\ loop.i + 1 = B)

C9_TrainLoopCoverage == [](C9_EpochCoverage) /\ [][C9_ReturnStep]_vars

\* A loop of three batches, the last a partial one of two rows, has returned.
C9_Witness ==
  /\ ret.op = "train_loop" /\ ret.raised = "none" /\ loop.pc = "idle"
  /\ num_batches(self.train) = 3
  /\ ret.trace # <<>>
  /\ Len(ret.input.rows) = 2
  /\ calls = 3

\* C10: with no validation row, no loss computed over zero rows is ever
\* recorded: the report is skipped, or the configuration was refused.
C10_NoLossOverZeroRows ==
  /\ (self.val.rows = <<>> => self.train_losses = <<>> /\ self.val_losses = <<>>)
  /\ \A p \in 1..Len(self.val_losses) : ~self.val_losses[p].nan
====
